---- MODULE Spec2Model ----
(***************************************************************************)
(* react-even-simpler-img, src/src/index.tsx.                              *)
(*                                                                         *)
(* One <ImageLoader> provider (a reducer-held cache, and an API object     *)
(* re-created by useMemo on every cache change, each with its own          *)
(* debounced loadImage), a fixed number of useImgLoader consumers, the     *)
(* browser's timers, image loads and IntersectionObserver callbacks.       *)
(*                                                                         *)
(* The JavaScript event loop is modelled as one action per task: every     *)
(* action runs a whole callback together with the microtasks (promise      *)
(* continuations) and the synchronous React render it causes.  Timers all  *)
(* have the same 16 ms delay, so they expire in the order they were armed. *)
(***************************************************************************)
EXTENDS Integers, Sequences, FiniteSets, TLC

(* ------------------------------ bounds --------------------------------- *)
MaxUnmounts == 1

(* direct calls of loadImage in a run *)
MaxCalls == 1

(* the history counters count up to this and stay there *)
MaxCount == 2

Count(n) == IF n < MaxCount THEN n + 1 ELSE n

(* the SimpleImg elements of the page, in tree order *)
Consumers == {1, 2}

LastConsumer == Cardinality(Consumers)

Urls == {"a", "b"}

Ratios == {0, 5}

(* ------------------------- program constants --------------------------- *)
IDLE == 0

PENDING == 1

LOADED == 2

ERROR == 3

DEFAULT_PLACEHOLDER == "data:image/gif"

(* the placeholder each consumer passes: the first none, the others their own *)
placeholderOf(c) == IF c = 1 THEN DEFAULT_PLACEHOLDER ELSE "lowres"

(* what an invocation of useImgLoader that throws leaves on screen *)
RAISED == "raised"

NOTHING == "nothing"

(* natural height of the image behind a URL, as the platform reports it *)
NaturalHeight(src) == IF src = "a" THEN 150 ELSE 200

(* ------------------------------- state --------------------------------- *)
VARIABLES
  hasIO,        \* 'IntersectionObserver' in window
  hasIOEntry,   \* 'IntersectionObserverEntry' in window
  boundary,     \* TRUE: every consumer sits in its own error boundary
  srcOf,        \* the src each consumer passes to useImgLoader
  lazyOf,       \* the lazy flag each consumer passes
  cache,        \* the reducer state of ImageLoader
  apis,         \* apis[k]: the cache closed over by the k-th imgLoaderApi
  provider,     \* ImageLoader is mounted
  cons,         \* per consumer: the last render of useImgLoader
  timers,       \* armed debounce timers, in arming order
  watches,      \* (observer, element) pairs under observation
  promises,     \* the promises fetchImg has returned
  parentHeight, \* style.height of each image element's parent
  nObs,         \* observers constructed per hook instance
  ioCalls,      \* loadImage invocations made by handleIntersect, per element
  effectThrew,  \* consumers whose effect raised
  warned,       \* consumers whose effect logged the fallback warning
  didCatchSeen, \* URLs for which didCatch has been reduced into the cache
  fetches,      \* fetchImg calls per URL
  loadedOk,     \* URLs of which an image has loaded (onload)
  mountedIdle,  \* consumers that mounted with their element on an Idle URL
  doneUnmounted, \* URLs a fetch of which completed with no consumer of it mounted
  outside,      \* consumers the application rendered outside the provider
  lastCall,     \* what the last direct call of an API's loadImage did
  touched,      \* URLs whose actions the reducer reduced in the last task
  unmounts      \* consumers the application has unmounted

vars == <<hasIO, hasIOEntry, boundary, srcOf, lazyOf, cache,
          apis, provider, cons, timers, watches, promises, parentHeight,
          nObs, ioCalls, effectThrew, warned, didCatchSeen, fetches, loadedOk,
          mountedIdle, doneUnmounted, outside, lastCall, touched, unmounts>>

(* the environment: fixed for a run *)
envVars == <<hasIO, hasIOEntry, boundary, srcOf, lazyOf>>

(* The mutable part of the state as one record, so that the steps of a     *)
(* callback compose as functions World -> World.  A task starts with no    *)
(* action reduced yet.                                                     *)
World ==
  [cache |-> cache, apis |-> apis, provider |-> provider, cons |-> cons,
   timers |-> timers, watches |-> watches, promises |-> promises,
   parentHeight |-> parentHeight, nObs |-> nObs, ioCalls |-> ioCalls,
   effectThrew |-> effectThrew, warned |-> warned,
   didCatchSeen |-> didCatchSeen, fetches |-> fetches, loadedOk |-> loadedOk,
   mountedIdle |-> mountedIdle, doneUnmounted |-> doneUnmounted,
   outside |-> outside, lastCall |-> lastCall, touched |-> {},
   unmounts |-> unmounts]

(* Garbage collection.  An API instance that no timer, observer callback   *)
(* or mounted consumer refers to, and a settled promise that no cache any  *)
(* live API instance closed over holds, can never be read again: they are  *)
(* dropped and the others renumbered in order.                             *)
Rank(S, k) == Cardinality({j \in S : j <= k})

Nth(S, i) == CHOOSE k \in S : Rank(S, k) = i

LiveApis(w) ==
  {Len(w.apis)}
    \cup {w.timers[i].api : i \in DOMAIN w.timers}
    \cup {x.obs : x \in w.watches}
    \cup {w.cons[c].api : c \in {d \in Consumers : w.cons[d].phase = "mounted"}}
    \cup {w.cons[c].obs : c \in {d \in Consumers : w.cons[d].obs # 0}}

LivePromises(w) ==
  {p \in DOMAIN w.promises : w.promises[p].state = "pending"}
    \cup UNION {{w.apis[k][u].p : u \in {v \in Urls : w.apis[k][v].t = "promise"}} :
                 k \in LiveApis(w)}

Collect(w) ==
  LET A == LiveApis(w)
      P == LivePromises(w)
      entry(e) == IF e.t = "promise" THEN [e EXCEPT !.p = Rank(P, e.p)] ELSE e
      snap(c) == [u \in Urls |-> entry(c[u])]
      ref(k) == IF k = 0 THEN 0 ELSE Rank(A, k)
  IN [w EXCEPT
        !.cache = snap(@),
        !.apis = [i \in 1..Cardinality(A) |-> snap(w.apis[Nth(A, i)])],
        !.promises = [i \in 1..Cardinality(P) |-> w.promises[Nth(P, i)]],
        !.timers = [i \in DOMAIN @ |-> [@[i] EXCEPT !.api = ref(@)]],
        !.watches = {[x EXCEPT !.obs = ref(@)] : x \in @},
        !.cons = [c \in Consumers |->
                    [@[c] EXCEPT !.api = ref(@), !.obs = ref(@)]]]

Becomes(v) ==
  \E w \in {Collect(v)} :
  /\ cache' = w.cache
  /\ apis' = w.apis
  /\ provider' = w.provider
  /\ cons' = w.cons
  /\ timers' = w.timers
  /\ watches' = w.watches
  /\ promises' = w.promises
  /\ parentHeight' = w.parentHeight
  /\ nObs' = w.nObs
  /\ ioCalls' = w.ioCalls
  /\ effectThrew' = w.effectThrew
  /\ warned' = w.warned
  /\ didCatchSeen' = w.didCatchSeen
  /\ fetches' = w.fetches
  /\ loadedOk' = w.loadedOk
  /\ mountedIdle' = w.mountedIdle
  /\ doneUnmounted' = w.doneUnmounted
  /\ outside' = w.outside
  /\ lastCall' = w.lastCall
  /\ touched' = w.touched
  /\ unmounts' = w.unmounts
  /\ UNCHANGED envVars

(* ---------------------------- cache entries ---------------------------- *)
Undefined == [t |-> "undefined", p |-> 0]

PromiseEntry(p) == [t |-> "promise", p |-> p]

True == [t |-> "true", p |-> 0]

False == [t |-> "false", p |-> 0]

(* the capability check reads a global that never exists *)
supportsIntersectionObserverNever == FALSE

supportsIntersectionObserver == hasIO /\ hasIOEntry

(* willLoad computes its key from the wrong field and lands on another URL *)
reducerWrongKey(state, action) ==
  CASE action.type = "willLoad" ->
         [state EXCEPT ![CHOOSE u \in Urls : u # action.src] =
                         PromiseEntry(action.promise)]
    [] action.type = "didLoad" -> [state EXCEPT ![action.src] = True]
    [] action.type = "didCatch" -> [state EXCEPT ![action.src] = False]
    [] OTHER -> state

(* didLoad stores its payload (the URL) instead of true *)
reducerStoresPayload(state, action) ==
  CASE action.type = "willLoad" ->
         [state EXCEPT ![action.src] = PromiseEntry(action.promise)]
    [] action.type = "didLoad" -> [state EXCEPT ![action.src] = [t |-> "string", p |-> 0]]
    [] action.type = "didCatch" -> [state EXCEPT ![action.src] = False]
    [] OTHER -> state

(* didCatch forgets the URL instead of recording the failure *)
reducerForgetsFailure(state, action) ==
  CASE action.type = "willLoad" ->
         [state EXCEPT ![action.src] = PromiseEntry(action.promise)]
    [] action.type = "didLoad" -> [state EXCEPT ![action.src] = True]
    [] action.type = "didCatch" -> [state EXCEPT ![action.src] = Undefined]
    [] OTHER -> state

(* the cases build the new state without spreading the old one *)
reducerDropsState(state, action) ==
  CASE action.type = "willLoad" ->
         [u \in Urls |-> IF u = action.src THEN PromiseEntry(action.promise)
                         ELSE Undefined]
    [] action.type = "didLoad" ->
         [u \in Urls |-> IF u = action.src THEN True ELSE Undefined]
    [] action.type = "didCatch" ->
         [u \in Urls |-> IF u = action.src THEN False ELSE Undefined]
    [] OTHER -> state

reducer(state, action) ==
  CASE action.type = "willLoad" ->
         [state EXCEPT ![action.src] = PromiseEntry(action.promise)]
    [] action.type = "didLoad" -> [state EXCEPT ![action.src] = True]
    [] action.type = "didCatch" -> [state EXCEPT ![action.src] = False]
    [] OTHER -> state

getValue(c, src) == c[src]

getStatus(c, src) ==
  LET value == getValue(c, src) IN
  IF value.t = "undefined" THEN IDLE
  ELSE IF value.t = "promise" THEN PENDING
  ELSE IF value.t = "true" THEN LOADED
  ELSE IF value.t = "false" THEN ERROR
  ELSE -1

(* the real URL is returned as soon as the load has started *)
useImgLoaderResultEarly(status, src, placeholder) ==
  IF status = LOADED \/ status = PENDING THEN src
  ELSE IF status = ERROR THEN RAISED
  ELSE placeholder

(* a missing provider falls back to the oldest API instead of throwing *)
useImgLoaderContextLenient(ctx) == IF ctx = 0 THEN 1 ELSE ctx

(* useImgLoaderContext: the API the context holds, or -1 for the throw on  *)
(* the context's default value null (0)                                    *)
useImgLoaderContext(ctx) == IF ctx = 0 THEN -1 ELSE ctx

(* what useImgLoader returns (or RAISED when it throws) for a status *)
useImgLoaderResult(status, src, placeholder) ==
  IF status = LOADED THEN src
  ELSE IF status = ERROR THEN RAISED
  ELSE placeholder

(* ------------------------- React: unmounting --------------------------- *)
(* the effect returns no cleanup *)
EffectCleanupOmitted(w, c) == w

(* The cleanup returned by the last effect run of consumer c: it closes    *)
(* over that run's observer, lazy and imgNode.                             *)
EffectCleanup(w, c) ==
  IF w.cons[c].obs # 0 /\ lazyOf[c] /\ w.cons[c].node
  THEN [w EXCEPT !.watches =
          {x \in @ : ~(x.el = c /\ x.obs = w.cons[c].obs)}]
  ELSE w

UnmountConsumer(w, c) ==
  IF w.cons[c].phase # "mounted" THEN w
  ELSE [EffectCleanup(w, c) EXCEPT
          !.cons[c] = [@ EXCEPT !.phase = "unmounted", !.eff = FALSE, !.api = 0,
                                !.obs = 0, !.shown = NOTHING]]

RECURSIVE UnmountAll(_, _)
UnmountAll(w, i) ==
  IF i > LastConsumer THEN w ELSE UnmountAll(UnmountConsumer(w, i), i + 1)

RECURSIVE UnmountEach(_, _, _)
UnmountEach(w, S, i) ==
  IF i > LastConsumer THEN w
  ELSE UnmountEach(IF i \in S THEN UnmountConsumer(w, i) ELSE w, S, i + 1)

(* An error raised by the consumers in S, in render or in an effect: it    *)
(* unwinds to the nearest error boundary, which replaces the consumer by   *)
(* its fallback; with no boundary React unmounts the whole root, the       *)
(* provider included.                                                      *)
HandleThrows(w, S) ==
  IF S = {} THEN w
  ELSE IF boundary THEN UnmountEach(w, S, 1)
  ELSE [UnmountAll(w, 1) EXCEPT !.provider = FALSE]

(* ----------------------------- debounce -------------------------------- *)
(* A call of the debounced loadImage of API instance api: clearTimeout of  *)
(* that instance's timer, then setTimeout with the new arguments.          *)
debounce(w, api, src, imgNode) ==
  LET notMine(t) == t.api # api IN
  [w EXCEPT !.timers =
     Append(SelectSeq(@, notMine), [api |-> api, src |-> src, node |-> imgNode])]

(* --------------------------- useImgLoader ------------------------------ *)
(* getObserver: _observer.current is initialised to null by useRef and     *)
(* never assigned, so it is read here as the hook's ref field.             *)
getObserver(current, fresh) == IF current = 0 THEN fresh ELSE current

(* One run of the effect of consumer c: the previous run's cleanup, then   *)
(* the body with the values of c's last render.                            *)
RunEffect(w, c) ==
  LET w0 == [EffectCleanup(w, c) EXCEPT !.cons[c].obs = 0, !.cons[c].eff = FALSE]
      api == w.cons[c].api
      status == getStatus(w.apis[api], srcOf[c])
  IN
  IF status = IDLE /\ w.cons[c].node
  THEN IF lazyOf[c]
       THEN LET w1 == IF ~supportsIntersectionObserver
                      THEN [debounce(w0, api, srcOf[c], c) EXCEPT
                              !.warned = @ \cup {c}]
                      ELSE w0
                fresh == api  \* a new observer, named by the render that made it
                observer == getObserver(w1.cons[c].ref, fresh)
            IN IF ~hasIO
               THEN \* new IntersectionObserver: ReferenceError
                    [w1 EXCEPT !.effectThrew = @ \cup {c}]
               ELSE [w1 EXCEPT
                       !.nObs[c] = IF observer = fresh THEN Count(@) ELSE @,
                       !.watches = @ \cup {[el |-> c, obs |-> observer]},
                       !.cons[c].obs = observer]
       ELSE debounce(w0, api, srcOf[c], c)
  ELSE w0

RECURSIVE RunEffects(_, _)
RunEffects(w, i) ==
  IF i > LastConsumer THEN w
  ELSE RunEffects(IF w.cons[i].phase = "mounted" /\ w.cons[i].eff
                  THEN RunEffect(w, i) ELSE w, i + 1)

(* React flushes the pending passive effects in tree order, then handles   *)
(* the errors they raised.                                                 *)
FlushEffects(w) ==
  LET w1 == RunEffects(w, 1) IN
  HandleThrows(w1, w1.effectThrew \ w.effectThrew)

(* The render of useImgLoader in consumer c against the current API.       *)
RenderConsumer(w, c) ==
  LET status == getStatus(w.cache, srcOf[c]) IN
  [w EXCEPT !.cons[c] =
     [@ EXCEPT !.api = Len(w.apis), !.eff = TRUE,
               !.shown = useImgLoaderResult(status, srcOf[c], placeholderOf(c))]]

RECURSIVE RenderEach(_, _)
RenderEach(w, i) ==
  IF i > LastConsumer THEN w
  ELSE RenderEach(IF w.cons[i].phase = "mounted" THEN RenderConsumer(w, i) ELSE w,
                  i + 1)

(* Re-render of the provider's subtree after a cache change. *)
Render(w) ==
  LET w1 == RenderEach(w, 1) IN
  HandleThrows(w1, {c \in Consumers :
                      w1.cons[c].phase = "mounted" /\ w1.cons[c].shown = RAISED})

(* dispatch of the reducer, outside a React event handler: pending passive *)
(* effects are flushed, the state is reduced, useMemo builds a new API for *)
(* the new cache and the subtree re-renders.  On an unmounted provider the *)
(* update is dropped.                                                      *)
dispatch(w, action) ==
  LET w1 == FlushEffects(w) IN
  IF ~w1.provider THEN w1
  ELSE LET newCache == reducer(w1.cache, action) IN
       Render([w1 EXCEPT
                 !.cache = newCache,
                 !.apis = Append(@, newCache),
                 !.touched = @ \cup {action.src},
                 !.didCatchSeen = IF action.type = "didCatch"
                                  THEN @ \cup {action.src} ELSE @])

(* ----------------------- ImageLoader.loadImage ------------------------- *)
fetchImg(w, src) ==
  [w EXCEPT !.promises =
              Append(@, [src |-> src, state |-> "pending", waiters |-> <<>>]),
            !.fetches[src] = Count(@)]

(* loadImage after its await, for a promise that resolved (ok) or rejected *)
Resume(w, ok, src, imgNode) ==
  IF ok
  THEN LET w1 == IF w.cons[imgNode].phase = "mounted"  \* parentNode is an element
                 THEN [w EXCEPT !.parentHeight[imgNode] = NaturalHeight(src)]
                 ELSE w
       IN dispatch(w1, [type |-> "didLoad", src |-> src])
  ELSE dispatch(w, [type |-> "didCatch", src |-> src])

(* await promise: suspend on a pending promise, or continue in a microtask *)
(* of the same task when the promise has settled already.                  *)
Await(w, p, src, imgNode) ==
  IF w.promises[p].state = "pending"
  THEN [w EXCEPT !.promises[p].waiters = Append(@, imgNode)]
  ELSE Resume(w, w.promises[p].state = "resolved", src, imgNode)

(* every call fetches, whatever the status *)
loadImageRefetches(w, api, src, imgNode) ==
  LET promise == Len(w.promises) + 1
      w1 == dispatch(fetchImg(w, src),
                     [type |-> "willLoad", src |-> src, promise |-> promise])
  IN Await(w1, promise, src, imgNode)

(* loadImage of API instance api, run when its debounce timer expires: it  *)
(* reads the cache that instance closed over.                              *)
loadImage(w, api, src, imgNode) ==
  LET status == getStatus(w.apis[api], src) IN
  IF status = IDLE
  THEN LET promise == Len(w.promises) + 1
           w1 == dispatch(fetchImg(w, src),
                          [type |-> "willLoad", src |-> src, promise |-> promise])
       IN Await(w1, promise, src, imgNode)
  ELSE IF status = PENDING
  THEN Await(w, getValue(w.apis[api], src).p, src, imgNode)
  ELSE w

(* the promise loadImage returns, right after the call: resolved with     *)
(* true or false, or not resolved yet                                     *)
loadImageReturns(c, src) ==
  LET status == getStatus(c, src) IN
  IF status = LOADED THEN "true"
  ELSE IF status = ERROR THEN "false"
  ELSE "unresolved"

RECURSIVE ResumeAll(_, _, _, _)
ResumeAll(w, ok, src, waiters) ==
  IF waiters = <<>> THEN w
  ELSE ResumeAll(Resume(w, ok, src, Head(waiters)), ok, src, Tail(waiters))

(* handleIntersect fires the load for this ratio *)
Intersects(intersectionRatio) == intersectionRatio > 0

(* ------------------------------ actions -------------------------------- *)
NoCall ==
  [n |-> 0, status |-> IDLE, returned |-> "none", fetched |-> FALSE,
   dispatched |-> FALSE, styled |-> FALSE, awaited |-> FALSE]

InitCons ==
  [phase |-> "init", node |-> FALSE, api |-> 0, eff |-> FALSE, obs |-> 0,
   ref |-> 0, shown |-> NOTHING]

Init ==
  /\ hasIO \in BOOLEAN
  /\ hasIOEntry \in {e \in BOOLEAN : e => hasIO}
  /\ boundary \in BOOLEAN
  /\ srcOf \in {f \in [Consumers -> Urls] : f[1] = "a"}
  /\ lazyOf \in [Consumers -> BOOLEAN]
  /\ cache = [u \in Urls |-> Undefined]
  /\ apis = <<[u \in Urls |-> Undefined]>>
  /\ provider = TRUE
  /\ cons = [c \in Consumers |-> InitCons]
  /\ timers = <<>>
  /\ watches = {}
  /\ promises = <<>>
  /\ parentHeight = [c \in Consumers |-> 0]
  /\ nObs = [c \in Consumers |-> 0]
  /\ ioCalls = [c \in Consumers |-> 0]
  /\ effectThrew = {}
  /\ warned = {}
  /\ didCatchSeen = {}
  /\ fetches = [u \in Urls |-> 0]
  /\ loadedOk = {}
  /\ mountedIdle = {}
  /\ doneUnmounted = {}
  /\ outside = {}
  /\ lastCall = NoCall
  /\ touched = {}
  /\ unmounts = 0

(* A consumer mounts.  SimpleImg renders useImgLoader without an element,  *)
(* the commit hands the img element to setImgNode through the ref callback *)
(* and the consumer re-renders with it before the task ends; the effect of *)
(* the first render runs without an element and does nothing.              *)
Mounting(w0, c) ==
  LET w1 == RenderConsumer([w0 EXCEPT !.cons[c].phase = "mounted"], c)
      w2 == IF w1.cons[c].shown = RAISED THEN w1
            ELSE RenderConsumer(
                   [RunEffect(w1, c) EXCEPT
                      !.cons[c].node = TRUE,
                      !.mountedIdle = IF getStatus(w1.cache, srcOf[c]) = IDLE
                                      THEN @ \cup {c} ELSE @], c)
  IN HandleThrows(w2, IF w2.cons[c].shown = RAISED THEN {c} ELSE {})

Mount(c) ==
  /\ provider
  /\ cons[c].phase = "init"
  /\ LET w0 == FlushEffects(World) IN
     /\ w0.provider
     /\ Becomes(Mounting(w0, c))

(* The application renders a consumer in the same root but outside         *)
(* <ImageLoader>: useContext returns the context's default, null, and      *)
(* useImgLoaderContext throws in the consumer's first render.              *)
MountOutside(c) ==
  /\ provider
  /\ cons[c].phase = "init"
  /\ LET w0 == FlushEffects(World) IN
     /\ w0.provider
     /\ LET w1 == [w0 EXCEPT !.outside = @ \cup {c}] IN
        IF useImgLoaderContext(0) < 0
        THEN Becomes(HandleThrows(
                       [w1 EXCEPT !.cons[c] = [@ EXCEPT !.phase = "mounted",
                                                        !.shown = RAISED]], {c}))
        ELSE Becomes(Mounting(w1, c))

(* The application unmounts a consumer: the pending effects run before the *)
(* render that removes it, then its cleanup.                               *)
Unmount(c) ==
  /\ cons[c].phase = "mounted"
  /\ unmounts < MaxUnmounts
  /\ Becomes([UnmountConsumer(FlushEffects(World), c) EXCEPT !.unmounts = @ + 1])

(* The scheduler runs the pending passive effects. *)
Effects ==
  /\ \E c \in Consumers : cons[c].phase = "mounted" /\ cons[c].eff
  /\ Becomes(FlushEffects(World))

(* The oldest debounce timer expires. *)
TimerFire ==
  /\ timers # <<>>
  /\ LET t == Head(timers) IN
     Becomes(loadImage([World EXCEPT !.timers = Tail(@)], t.api, t.src, t.node))

(* The platform delivers an intersection entry to an observer. *)
Intersect(x, intersectionRatio) ==
  /\ x \in watches
  /\ IF Intersects(intersectionRatio)
     THEN Becomes([debounce(World, x.obs, srcOf[x.el], x.el) EXCEPT
                     !.watches = @ \ {x},
                     !.ioCalls[x.el] = Count(@)])
     ELSE UNCHANGED vars

(* The image behind promise p loads (onload) or fails (onerror). *)
FetchSettle(p, ok) ==
  /\ p \in 1..Len(promises)
  /\ promises[p].state = "pending"
  /\ LET w0 == [World EXCEPT
                  !.promises[p] = [@ EXCEPT
                     !.state = IF ok THEN "resolved" ELSE "rejected",
                     !.waiters = <<>>],
                  !.loadedOk = IF ok THEN @ \cup {promises[p].src} ELSE @,
                  !.doneUnmounted =
                     IF \A c \in Consumers :
                          srcOf[c] = promises[p].src => cons[c].phase # "mounted"
                     THEN @ \cup {promises[p].src} ELSE @]
     IN Becomes(ResumeAll(w0, ok, promises[p].src, promises[p].waiters))

(* A holder of API instance api executes its loadImage(src, imgNode) for a *)
(* URL that instance's cache has an entry for (a re-request); lastCall     *)
(* records what the call did.                                              *)
Call(api, src, imgNode) ==
  /\ api \in DOMAIN apis
  /\ lastCall.n < MaxCalls
  /\ cons[imgNode].node
  /\ getStatus(apis[api], src) # IDLE
  /\ LET w == World
         w1 == loadImage(w, api, src, imgNode)
         p == getValue(apis[api], src).p
     IN Becomes([w1 EXCEPT !.lastCall =
          [n |-> lastCall.n + 1,
           status |-> getStatus(apis[api], src),
           returned |-> loadImageReturns(apis[api], src),
           fetched |-> Len(w1.promises) # Len(w.promises),
           dispatched |-> Len(w1.apis) # Len(w.apis),
           styled |-> w1.parentHeight # w.parentHeight,
           awaited |-> /\ getStatus(apis[api], src) = PENDING
                       /\ IF w.promises[p].state = "pending"
                          THEN w1.promises[p].waiters =
                                 Append(w.promises[p].waiters, imgNode)
                          ELSE ~w.provider \/ Len(w1.apis) # Len(w.apis)]])

Next ==
  \/ \E c \in Consumers : Mount(c)
  \/ \E c \in Consumers : MountOutside(c)
  \/ \E c \in Consumers : Unmount(c)
  \/ Effects
  \/ TimerFire
  \/ \E x \in watches, r \in Ratios : Intersect(x, r)
  \/ \E p \in 1..Len(promises), ok \in BOOLEAN : FetchSettle(p, ok)

Spec == Init /\ [][Next]_vars

(* The runs in which the application unmounts no consumer and every image *)
(* loads.                                                                  *)
NextLoads ==
  \/ \E c \in Consumers : Mount(c)
  \/ Effects
  \/ TimerFire
  \/ \E x \in watches, r \in Ratios : Intersect(x, r)
  \/ \E p \in 1..Len(promises) : FetchSettle(p, TRUE)

SpecLoads == Init /\ [][NextLoads]_vars

(* The runs in which holders of the context's API also call loadImage      *)
(* directly.                                                               *)
NextCalls ==
  \/ \E c \in Consumers : Mount(c)
  \/ Effects
  \/ TimerFire
  \/ \E p \in 1..Len(promises), ok \in BOOLEAN : FetchSettle(p, ok)
  \/ \E k \in DOMAIN apis, u \in Urls, c \in Consumers : Call(k, u, c)

SpecCalls == Init /\ [][NextCalls]_vars

(* ============================== claims ================================= *)
PendingFetches(u) ==
  {p \in DOMAIN promises : promises[p].src = u /\ promises[p].state = "pending"}

Mounted(c) == cons[c].phase = "mounted"

Settled(u) == getStatus(cache, u) \in {LOADED, ERROR}

(* nothing is left to run: no effect, no timer, no fetch *)
Quiescent ==
  /\ timers = <<>>
  /\ \A c \in Consumers : Mounted(c) => ~cons[c].eff
  /\ \A p \in DOMAIN promises : promises[p].state # "pending"

(* C1: for every URL at most one fetch is in flight at any time: no        *)
(* loadImage call starts a second fetch of a URL whose first fetch has not *)
(* resolved yet.                                                           *)
C1_AtMostOneFetchInFlight ==
  \A u \in Urls : Cardinality(PendingFetches(u)) <= 1

(* C2: the status of a URL only moves Idle -> Pending -> Loaded or         *)
(* Idle -> Pending -> Error; Loaded stays Loaded and Error stays Error.    *)
Forward(s, t) ==
  \/ s = t
  \/ s = IDLE /\ t = PENDING
  \/ s = PENDING /\ t \in {LOADED, ERROR}

C2_StatusNeverGoesBack ==
  [][\A u \in Urls : Forward(getStatus(cache, u), getStatus(cache', u))]_vars

(* C3: the calls of the provider's loadImage made within one debounce      *)
(* window leave exactly one load to execute (the last call's): two timers  *)
(* are never armed at once.                                                *)
C3_OneLoadPerWindow == Len(timers) <= 1

(* C4: once every armed timer has fired, every started fetch has loaded   *)
(* and every effect has run, an eager consumer that was mounted with its   *)
(* element on an Idle URL is shown the real URL.                           *)
C4_EagerLoadCompletes ==
  \A c \in mountedIdle :
    Quiescent /\ ~lazyOf[c] => Mounted(c) /\ cons[c].shown = srcOf[c]

(* C5: with IntersectionObserver support, a URL whose consumers are all    *)
(* lazy and have had no callback with a positive ratio has had no fetch    *)
(* started and no cache entry written, and its consumers show the          *)
(* placeholder.                                                            *)
AllLazyUnseen(u) ==
  \A c \in Consumers : srcOf[c] = u => lazyOf[c] /\ ioCalls[c] = 0

C5_LazyWaitsForIntersection ==
  (hasIO /\ hasIOEntry) =>
    \A u \in Urls :
      AllLazyUnseen(u) =>
        /\ fetches[u] = 0
        /\ cache[u] = Undefined
        /\ \A c \in Consumers :
             Mounted(c) /\ srcOf[c] = u => cons[c].shown = placeholderOf(c)

(* an observed lazy element still waits while another URL has been fetched *)
C5_Witness ==
  /\ hasIO /\ hasIOEntry
  /\ \E c \in Consumers :
       /\ Mounted(c) /\ lazyOf[c] /\ AllLazyUnseen(srcOf[c])
       /\ \E x \in watches : x.el = c
       /\ \E v \in Urls \ {srcOf[c]} : fetches[v] > 0

(* C7: a mounted consumer shows the placeholder exactly while its URL is   *)
(* Idle or Pending and the real URL exactly while it is Loaded; a consumer *)
(* whose URL is in Error has raised; the real URL is shown only after an   *)
(* image of that URL has loaded.                                           *)
C7_DisplayFollowsStatus ==
  \A c \in Consumers :
    Mounted(c) =>
      LET status == getStatus(cache, srcOf[c]) IN
      /\ cons[c].shown = placeholderOf(c) <=> status \in {IDLE, PENDING}
      /\ cons[c].shown = srcOf[c] <=> status = LOADED
      /\ status # ERROR
      /\ cons[c].shown = srcOf[c] => srcOf[c] \in loadedOk

(* one consumer shows its image while another still shows its placeholder  *)
(* for a fetch in flight                                                   *)
C7_Witness ==
  \E c, d \in Consumers :
    /\ Mounted(c) /\ cons[c].shown = srcOf[c]
    /\ Mounted(d) /\ getStatus(cache, srcOf[d]) = PENDING
    /\ cons[d].shown = placeholderOf(d)

(* C6: once the failure of a URL's fetch has been recorded, useImgLoader   *)
(* raises for that URL in every later state.                               *)
C6_ErrorRaisesEverAfter ==
  \A u \in didCatchSeen :
    useImgLoaderResult(getStatus(cache, u), u, DEFAULT_PLACEHOLDER) = RAISED

(* C8: handleIntersect invokes loadImage at most once per element over the *)
(* whole run, and the element is not observed after that invocation        *)
(* (stated for a platform with IntersectionObserver support).              *)
C8_TriggerFiresOncePerElement ==
  supportsIntersectionObserver => \A c \in Consumers :
    /\ ioCalls[c] <= 1
    /\ ioCalls[c] = 1 => ~(\E x \in watches : x.el = c)

(* C9: without IntersectionObserver support, a lazy consumer whose effect  *)
(* fell back to the eager load has its URL settled once every timer has    *)
(* fired and every fetch has completed.                                    *)
C9_FallbackLoadSettles ==
  \A c \in warned : Quiescent => Settled(srcOf[c])

(* C10: without IntersectionObserver support no effect raises and no       *)
(* observer is constructed or attached.                                    *)
C10_AbsenceNeverSurfaces ==
  ~supportsIntersectionObserver =>
    /\ effectThrew = {}
    /\ \A c \in Consumers : nObs[c] = 0
    /\ watches = {}

(* C11: once didCatch has been reduced for a URL, no step starts a fetch   *)
(* of that URL while the provider is mounted (a started fetch is one more  *)
(* pending promise of the URL: no step both starts and settles one).       *)
C11_NoFetchAfterFailure ==
  [][\A u \in didCatchSeen :
       provider => Cardinality(PendingFetches(u))' <= Cardinality(PendingFetches(u))]_vars

(* C12: a fetch that completes while no consumer of its URL is mounted     *)
(* still settles the URL in the provider's cache, and from then on the URL *)
(* stays settled: a consumer of it that mounts later is shown the settled  *)
(* outcome and arms no load.                                               *)
C12_UnmountKeepsFetch ==
  \A u \in doneUnmounted :
    provider =>
      /\ Settled(u)
      /\ \A c \in Consumers :
           Mounted(c) /\ srcOf[c] = u =>
             /\ cons[c].shown = u
             /\ \A i \in DOMAIN timers : timers[i].node # c

C20_NeverBackToIdle ==
  [][\A u \in Urls : getStatus(cache, u) # IDLE => getStatus(cache', u) # IDLE]_vars

(* a URL whose failure was recorded is Pending again: it moved back, but   *)
(* not to Idle                                                             *)
C20_Witness ==
  \E u \in didCatchSeen : getStatus(cache, u) = PENDING

(* C14: a consumer rendered outside the provider raised in its first       *)
(* render: it is not mounted, has read no API, constructed no observer,    *)
(* made no loadImage call (no timer carries its element, no fallback was   *)
(* logged), is watched by nothing and no parent height was set for it.     *)
C14_NoProviderFailsAtOnce ==
  \A c \in outside :
    /\ ~Mounted(c)
    /\ cons[c].api = 0 /\ ~cons[c].node
    /\ nObs[c] = 0 /\ ioCalls[c] = 0
    /\ c \notin warned /\ c \notin effectThrew /\ c \notin mountedIdle
    /\ \A i \in DOMAIN timers : timers[i].node # c
    /\ \A x \in watches : x.el # c
    /\ parentHeight[c] = 0

(* a consumer outside the provider has raised into its boundary while a    *)
(* consumer inside the provider has had its image loaded                   *)
C14_Witness ==
  \E c \in outside, d \in Consumers :
    /\ provider /\ ~Mounted(c)
    /\ Mounted(d) /\ cons[d].shown = srcOf[d]

(* C15: a mounted consumer that shows the real URL has its element's       *)
(* parent sized to the natural height of the image.                        *)
C15_ParentHeightReserved ==
  \A c \in Consumers :
    Mounted(c) /\ cons[c].node /\ cons[c].shown = srcOf[c] =>
      parentHeight[c] = NaturalHeight(srcOf[c])

(* C17: a hook instance constructs at most one IntersectionObserver.       *)
C17_OneObserverPerHook ==
  \A c \in Consumers : nObs[c] <= 1

(* C18: with IntersectionObserver available, an element is under at most   *)
(* one watch, and only while its consumer is mounted and lazy and its URL  *)
(* is Idle.                                                                *)
WatchesOf(c) == {x \in watches : x.el = c}

C16_ReRequestIsNoOp ==
  /\ lastCall.status = LOADED =>
       /\ lastCall.returned = "true"
       /\ ~lastCall.fetched /\ ~lastCall.dispatched /\ ~lastCall.styled
  /\ lastCall.status = ERROR =>
       /\ lastCall.returned = "false"
       /\ ~lastCall.fetched /\ ~lastCall.dispatched /\ ~lastCall.styled
  /\ lastCall.status = PENDING =>
       /\ ~lastCall.fetched /\ lastCall.awaited

(* loadImage has been called on a snapshot that has the URL Loaded while   *)
(* another URL's fetch is in flight                                        *)
C16_Witness ==
  /\ lastCall.status = LOADED /\ lastCall.returned = "true"
  /\ \E u \in Urls : PendingFetches(u) # {}

(* C21: the debounce timer that fires next belongs to an API instance      *)
(* whose cache snapshot gives its URL the status the provider's current    *)
(* cache gives it.                                                         *)
C21_TimerReadsCurrentStatus ==
  timers # <<>> =>
    getStatus(apis[Head(timers).api], Head(timers).src)
      = getStatus(cache, Head(timers).src)

(* C22: a task changes the cache entry only of the URLs whose willLoad,    *)
(* didLoad or didCatch it dispatched; every other URL keeps its entry (the *)
(* same kind of value, and for a promise the URL it fetches).             *)
EntryOf(u) ==
  IF cache[u].t = "promise"
  THEN [t |-> "promise", fetching |-> promises[cache[u].p].src]
  ELSE [t |-> cache[u].t, fetching |-> ""]

C22_OtherEntriesUnchanged ==
  [][\A u \in Urls : u \notin touched' => EntryOf(u)' = EntryOf(u)]_vars

(* a stale closure has just put a URL whose failure was recorded back to   *)
(* Pending while the other URL holds true                                  *)
C22_Witness ==
  \E u \in didCatchSeen, v \in Urls :
    /\ touched = {u} /\ getStatus(cache, u) = PENDING
    /\ v # u /\ cache[v] = True

====
